---- MODULE Spec2Model ----
(***************************************************************************)
(* Drop-OSS/bucket: the bucket planner (generate_buckets), the chunk       *)
(* stream demultiplexer (DropDownloadPipeline) and the download            *)
(* coordinator (download / download_game_bucket).                          *)
(*                                                                         *)
(* Sizes are scaled: TARGET_BUCKET_SIZE, MAX_FILES_PER_BUCKET,             *)
(* MAX_PACKET_LENGTH, BUF_CAPACITY and NUM_THREADS keep the source's names *)
(* and roles but have small values, so that the sealing, solo, short-read  *)
(* and pool-limit cases all happen inside the checked state space.  The    *)
(* code compares them with lengths and counts only through >=, > and min.  *)
(* Fields the download never reads (game_id, permissions, ids, path as     *)
(* distinct from filename) are left out of the records.                    *)
(***************************************************************************)
EXTENDS Integers, Sequences, FiniteSets, Bags, TLC

(***************************************************************************)
(* Program constants (scaled) and bounds of the model.                     *)
(***************************************************************************)
\* download.rs:12
RETRY_COUNT == 3
\* download.rs:14 (63 * 1000 * 1000 in the source)
TARGET_BUCKET_SIZE == 3
\* download.rs:15 ((1024 / 4) - 1 in the source)
MAX_FILES_PER_BUCKET == 2

\* download.rs:94 (num_threads(4) in the source)
NUM_THREADS == 2
\* download_internals.rs:12 (4096 * 4 in the source)
MAX_PACKET_LENGTH == 2
\* download_internals.rs:23 (1024 * 1024 in the source): the BufWriter's
\* capacity, larger than MAX_PACKET_LENGTH as in the source
BUF_CAPACITY == 3

\* largest range length a manifest of the model declares: one above the
\* threshold
MaxLen == TARGET_BUCKET_SIZE + 1
\* largest number of ranges of one file
MaxRanges == 2

Files == {"a", "b"}
Versions == {"v1", "v2"}
NoFile == "-"

Min(x, y) == IF x <= y THEN x ELSE y
Max(x, y) == IF x >= y THEN x ELSE y

RECURSIVE SumSeq(_)
SumSeq(s) == IF s = <<>> THEN 0 ELSE s[1] + SumSeq(Tail(s))

Prefix(s, n) == SubSeq(s, 1, n)

\* all sequences over S of length 0..n
SeqsUpTo(S, n) == UNION {[1..k -> S] : k \in 0..n}

(***************************************************************************)
(* The server's content and the digest.                                    *)
(***************************************************************************)
Bytes == {0, 1}

\* the true content of file f at byte position p (0-based)
OriginByte(f, p) == IF f = "a" THEN p % 2 ELSE (p + 1) % 2

\* the true bytes of the range [start, start + length) of file f
OriginRange(f, start, length) == [i \in 1..length |-> OriginByte(f, start + i - 1)]

\* md5::Context: new / consume / finalize, as an 8-bit rolling digest
DigestModulus == 256
Md5New == 7
RECURSIVE Md5Consume(_, _)
Md5Consume(h, buf) ==
    IF buf = <<>> THEN h
    ELSE Md5Consume((h * 31 + buf[1] + 1) % DigestModulus, Tail(buf))
Md5Finalize(h) == (h * 17 + 3) % DigestModulus
Md5(data) == Md5Finalize(Md5Consume(Md5New, data))

\* hex::encode of a digest: two lower-case hex digits
HexDigits == <<"0","1","2","3","4","5","6","7","8","9","a","b","c","d","e","f">>
HexEncode(d) == <<HexDigits[(d \div 16) + 1], HexDigits[(d % 16) + 1]>>

\* a checksum string no digest encodes to
BadChecksum == <<"z", "z">>

(***************************************************************************)
(* models.rs: DropChunk, DownloadDrop, DownloadBucket.                     *)
(***************************************************************************)
RECURSIVE Starts(_, _)
\* the running offsets of a list of lengths, beginning at off
Starts(lens, off) ==
    IF lens = <<>> THEN <<>> ELSE <<off>> \o Starts(Tail(lens), off + lens[1])

\* a manifest entry of file f whose ranges in bad carry a wrong checksum
DropChunk(f, v, lens, bad) ==
    [lengths |-> lens,
     checksums |-> [i \in 1..Len(lens) |->
                      IF i \in bad THEN BadChecksum
                      ELSE HexEncode(Md5(OriginRange(f, Starts(lens, 0)[i], lens[i])))],
     version_name |-> v]

DownloadDrop(f, idx, st, len, sum) ==
    [filename |-> f, index |-> idx, start |-> st, length |-> len, checksum |-> sum]

DownloadBucketMut(v, ds) == [version |-> "v1", drops |-> ds]
DownloadBucket(v, ds) == [version |-> v, drops |-> ds]

(***************************************************************************)
(* State.                                                                  *)
(***************************************************************************)
VARIABLES
    manifest,               \* DropManifest: file -> DropChunk
    fs0,                    \* the install directory as the run found it
    ppc,                    \* position in generate_buckets
    todo,                   \* files the manifest iteration has not reached
    cur,                    \* raw_path of the chunk being walked
    idx,                    \* index of the next range of cur (0-based)
    file_running_offset,
    buckets,                \* the output Vec<DownloadBucket>
    current_buckets,        \* version -> open bucket
    current_bucket_sizes,   \* version -> running byte total
    sealed,                 \* versions the final into_iter has visited
    dpc,                    \* position in download
    versions,               \* versions whose context is still to be requested
    download_contexts,      \* version -> DownloadContext
    context_requests,       \* version -> context requests sent for it
    spawned,                \* buckets the scope's loop has spawned
    workers,                \* bucket index -> the state of its task
    completed_contexts,     \* the boxcar::Vec of checksums
    fs                      \* the install directory: file -> bytes

planVars == <<manifest, fs0, ppc, todo, cur, idx, file_running_offset, buckets,
              current_buckets, current_bucket_sizes, sealed>>

dlVars == <<dpc, versions, download_contexts, context_requests, spawned, workers,
            completed_contexts, fs>>

vars == <<planVars, dlVars>>

(***************************************************************************)
(* download.rs: generate_buckets.                                          *)
(***************************************************************************)
\* line 46
IsSoloMut(length) == length > TARGET_BUCKET_SIZE
IsSolo(length) == length >= TARGET_BUCKET_SIZE

\* line 67
ShouldSealMut(size, length, ndrops) ==
    (size + length > TARGET_BUCKET_SIZE \/ ndrops >= MAX_FILES_PER_BUCKET)
    /\ ndrops # 0
ShouldSeal(size, length, ndrops) ==
    (size + length >= TARGET_BUCKET_SIZE \/ ndrops >= MAX_FILES_PER_BUCKET)
    /\ ndrops # 0

\* lines 35-44: the drop of range i (0-based) of file f at running offset off
DropOfMut(f, chunk, i, off) ==
    DownloadDrop(f, i, 0, chunk.lengths[i + 1], chunk.checksums[i + 1])
DropOf(f, chunk, i, off) ==
    DownloadDrop(f, i, off, chunk.lengths[i + 1], chunk.checksums[i + 1])

\* lines 46-79: one iteration of the inner loop, on the planner's three
\* collections st = [buckets, current_buckets, current_bucket_sizes]
PlanDropStep(st, v, drop) ==
    IF IsSolo(drop.length)
    THEN [st EXCEPT !.buckets = Append(@, DownloadBucket(v, <<drop>>))]
    ELSE
      LET size0 == IF v \in DOMAIN st.current_bucket_sizes
                   THEN st.current_bucket_sizes[v] ELSE 0
          open0 == IF v \in DOMAIN st.current_buckets
                   THEN st.current_buckets[v] ELSE DownloadBucket(v, <<>>)
          seal  == ShouldSeal(size0, drop.length, Len(open0.drops))
          out   == IF seal THEN Append(st.buckets, open0) ELSE st.buckets
          open1 == IF seal THEN DownloadBucket(v, <<>>) ELSE open0
          size1 == IF seal THEN 0 ELSE size0
      IN [buckets |-> out,
          current_buckets |->
              [w \in DOMAIN st.current_buckets \cup {v} |->
                  IF w = v THEN [open1 EXCEPT !.drops = Append(@, drop)]
                  ELSE st.current_buckets[w]],
          current_bucket_sizes |->
              [w \in DOMAIN st.current_bucket_sizes \cup {v} |->
                  IF w = v THEN size1 + drop.length
                  ELSE st.current_bucket_sizes[w]]]

\* lines 83-87: the final loop's body for one version
SealOpenMut(bs, open) == bs
SealOpen(bs, open) == IF open.drops # <<>> THEN Append(bs, open) ELSE bs

PlanState == [buckets |-> buckets, current_buckets |-> current_buckets,
              current_bucket_sizes |-> current_bucket_sizes]

ChunkDone == IF cur = NoFile THEN TRUE ELSE idx >= Len(manifest[cur].lengths)

\* line 26: the HashMap iteration reaches another file, in any order
PlanNextFile ==
    /\ ppc = "loop"
    /\ ChunkDone
    /\ \E f \in todo :
         /\ cur' = f
         /\ todo' = todo \ {f}
    /\ idx' = 0
    /\ file_running_offset' = 0
    /\ UNCHANGED dlVars
    /\ UNCHANGED <<manifest, fs0, ppc, buckets, current_buckets, current_bucket_sizes, sealed>>

\* lines 34-80: one range of the current chunk
PlanDrop ==
    /\ ppc = "loop"
    /\ ~ChunkDone
    /\ LET chunk == manifest[cur]
           drop  == DropOf(cur, chunk, idx, file_running_offset)
           st    == PlanDropStep(PlanState, chunk.version_name, drop)
       IN /\ file_running_offset' = file_running_offset + chunk.lengths[idx + 1]
          /\ buckets' = st.buckets
          /\ current_buckets' = st.current_buckets
          /\ current_bucket_sizes' = st.current_bucket_sizes
    /\ idx' = idx + 1
    /\ UNCHANGED dlVars
    /\ UNCHANGED <<manifest, fs0, ppc, todo, cur, sealed>>

\* line 81: the manifest is exhausted
PlanEndLoop ==
    /\ ppc = "loop"
    /\ ChunkDone
    /\ todo = {}
    /\ ppc' = "seal"
    /\ UNCHANGED dlVars
    /\ UNCHANGED <<manifest, fs0, todo, cur, idx, file_running_offset, buckets,
                   current_buckets, current_bucket_sizes, sealed>>

\* lines 83-87: the open buckets, in the HashMap's arbitrary order
PlanSeal ==
    /\ ppc = "seal"
    /\ \E v \in DOMAIN current_buckets \ sealed :
         /\ buckets' = SealOpen(buckets, current_buckets[v])
         /\ sealed' = sealed \cup {v}
    /\ UNCHANGED dlVars
    /\ UNCHANGED <<manifest, fs0, ppc, todo, cur, idx, file_running_offset,
                   current_buckets, current_bucket_sizes>>

\* line 89
PlanReturn ==
    /\ ppc = "seal"
    /\ sealed = DOMAIN current_buckets
    /\ ppc' = "done"
    /\ UNCHANGED dlVars
    /\ UNCHANGED <<manifest, fs0, todo, cur, idx, file_running_offset, buckets,
                   current_buckets, current_bucket_sizes, sealed>>

(***************************************************************************)
(* download_internals.rs: DropWriter over a BufWriter<File>.               *)
(***************************************************************************)
\* a file's bytes after bytes are written at offset pos; a hole reads as 0
FileWriteAt(content, pos, bytes) ==
    IF bytes = <<>> THEN content
    ELSE [p \in 1..Max(Len(content), pos + Len(bytes)) |->
            IF p > pos /\ p <= pos + Len(bytes) THEN bytes[p - pos]
            ELSE IF p <= Len(content) THEN content[p] ELSE 0]

\* line 21: write(true).create(true).truncate(false)
OpenFile(disk, path) ==
    IF path \in DOMAIN disk THEN disk ELSE disk @@ (path :> <<>>)

\* lines 20-26: the cursor at 0, an empty buffer, a fresh hasher
DropWriterNew(path) == [path |-> path, pos |-> 0, buf |-> <<>>, hasher |-> Md5New]

\* BufWriter::flush_buf: the buffered bytes go to the file at the cursor
FlushedWriter(w) == [w EXCEPT !.pos = @ + Len(w.buf), !.buf = <<>>]
FlushedDisk(w, disk) == [disk EXCEPT ![w.path] = FileWriteAt(@, w.pos, w.buf)]

\* BufWriter::write of fewer bytes than its capacity flushes first when the
\* bytes do not fit the spare room
NeedsFlush(w, bytes) == Len(bytes) > BUF_CAPACITY - Len(w.buf)

\* lines 35-40 under write_all: the bytes reach the hasher and the buffer
DropWriterWriteMut(w, bytes) ==
    LET w1 == IF NeedsFlush(w, bytes) THEN FlushedWriter(w) ELSE w
    IN [w1 EXCEPT !.hasher = Md5Consume(@, bytes), !.buf = bytes \o @]
DropWriterWrite(w, bytes) ==
    LET w1 == IF NeedsFlush(w, bytes) THEN FlushedWriter(w) ELSE w
    IN [w1 EXCEPT !.hasher = Md5Consume(@, bytes), !.buf = @ \o bytes]

\* lines 49-51: BufWriter::seek flushes, then moves the cursor
DropWriterSeekMut(w, start) == FlushedWriter(w)
DropWriterSeek(w, start) == [FlushedWriter(w) EXCEPT !.pos = start]

RECURSIVE DropWriters(_, _, _, _)
\* the writers ws[k..] go out of scope: each BufWriter's Drop flushes what
\* it holds, ignoring a failure; the flushes of the writers in lost fail
DropWriters(ws, k, disk, lost) ==
    IF k > Len(ws) THEN disk
    ELSE DropWriters(ws, k + 1,
                     IF k \in lost THEN disk ELSE FlushedDisk(ws[k], disk), lost)

\* the writers that hold buffered bytes
Buffered(ws) == {k \in 1..Len(ws) : ws[k].buf # <<>>}

(***************************************************************************)
(* The server's answers to a chunk request.                                *)
(***************************************************************************)
\* the characters of one entry of the Content-Lengths header
DigitChars == [d \in 0..MaxLen |-> HexDigits[d + 1]]
HeaderChars == {DigitChars[d] : d \in 0..MaxLen} \cup {"x"}

\* str::parse::<usize> of an entry of at most one character
ParseUsize(tok) ==
    IF Len(tok) = 1 /\ \E d \in 0..MaxLen : DigitChars[d] = tok[1]
    THEN [ok |-> TRUE, value |-> CHOOSE d \in 0..MaxLen : DigitChars[d] = tok[1]]
    ELSE [ok |-> FALSE, value |-> 0]

\* usize::to_string, for one digit
FormatUsize(n) == <<DigitChars[n]>>

\* the header a conforming server sends for drops ds
ExactHeader(ds) == [k \in 1..Len(ds) |-> FormatUsize(ds[k].length)]

RECURSIVE Concat(_)
Concat(ss) == IF ss = <<>> THEN <<>> ELSE ss[1] \o Concat(Tail(ss))

\* the body a conforming server sends for drops ds
ExactBody(ds) ==
    Concat([k \in 1..Len(ds) |-> OriginRange(ds[k].filename, ds[k].start, ds[k].length)])

\* the head of an answer. "transport": send() fails; "status": a status
\* other than 200; "noheader": 200 without Content-Lengths; "ok": 200
\* with the Content-Lengths entries hdr
ResponseHead(kind, hdr) == [kind |-> kind, hdr |-> hdr]
Refusals == {ResponseHead(k, <<>>) : k \in {"transport", "status", "noheader"}}

\* the body of an answer: its bytes, and whether the stream ends in a read
\* error rather than in end-of-stream
ResponseBody(bytes, tailErr) == [bytes |-> bytes, tailErr |-> tailErr]

\* every head within the bounds: a refusal, or any header of up to one
\* entry more than drops
AllHeads(ds) ==
    Refusals \cup
    {ResponseHead("ok", h) : h \in SeqsUpTo(SeqsUpTo(HeaderChars, 1), Len(ds) + 1) \ {<<>>}}

\* every body of up to one byte more than the drops' lengths
AllBodies(ds) ==
    {ResponseBody(b, e) : b \in SeqsUpTo(Bytes, SumSeq([k \in 1..Len(ds) |-> ds[k].length]) + 1),
                  e \in BOOLEAN}

\* a refusal, the exact header, or all but its last entry
FewHeads(ds) ==
    {ResponseHead("status", <<>>), ResponseHead("ok", ExactHeader(ds))} \cup
    (IF Len(ds) > 1 THEN {ResponseHead("ok", Prefix(ExactHeader(ds), Len(ds) - 1))} ELSE {})

FlipFirst(b) == IF b = <<>> THEN b ELSE [b EXCEPT ![1] = 1 - @]

\* the exact body, the exact body with its first byte changed, or the
\* exact body cut short by a read error
FewBodies(ds) ==
    {ResponseBody(ExactBody(ds), FALSE), ResponseBody(FlipFirst(ExactBody(ds)), FALSE)} \cup
    (IF ExactBody(ds) = <<>> THEN {}
     ELSE {ResponseBody(Prefix(ExactBody(ds), Len(ExactBody(ds)) - 1), TRUE)})

(***************************************************************************)
(* download.rs: download_game_bucket.                                      *)
(***************************************************************************)
RECURSIVE CheckLengthsMut(_, _, _)
CheckLengthsMut(hdr, ds, i) ==
    IF i > Len(hdr) THEN "ok"
    ELSE IF i > Len(ds) THEN "count"
    ELSE CheckLengthsMut(hdr, ds, i + 1)

RECURSIVE CheckLengths(_, _, _)
\* lines 171-179: the entries of the split header from the i-th on
CheckLengths(hdr, ds, i) ==
    IF i > Len(hdr) THEN "ok"
    ELSE IF i > Len(ds) THEN "count"
    ELSE IF ds[i].length # ParseUsize(hdr[i]).value THEN "value"
    ELSE CheckLengths(hdr, ds, i + 1)

\* lines 188-195: whether some digest differs from the manifest's checksum
ChecksumMismatch(ds, digests) ==
    \E k \in 1..Len(ds) : HexEncode(digests[k]) # ds[k].checksum

\* lines 190-198: a mismatch is printed and the attempt still returns Ok
CompareOutcomeMut(mismatch) == IF mismatch THEN "checksum" ELSE "ok"
CompareOutcome(mismatch) == "ok"

\* models.rs 118-129: ChunkBody::create
ChunkBody(context, ds) ==
    [context |-> context.context,
     files |-> [k \in 1..Len(ds) |->
                  [filename |-> ds[k].filename, chunk_index |-> ds[k].index]]]

(***************************************************************************)
(* download.rs: download, and the task of one bucket.                      *)
(***************************************************************************)
NoContext == [context |-> <<>>]

\* the DownloadContext the server issues for a version
ServerContext(v) == [context |-> <<"ctx", v>>]

\* a task before the scope's loop reaches its bucket
WorkerInit ==
    [pc |-> "pending", attempts |-> 0, context |-> NoContext, request |-> <<>>,
     error |-> "none", hdr |-> <<>>, body |-> <<>>, tailErr |-> FALSE,
     consumed |-> 0, destination |-> <<>>, di |-> 0, remaining |-> 0,
     digests |-> <<>>, mismatch |-> FALSE, pushed |-> 0]

Drops(b) == buckets[b].drops

\* the spec's bucket states
Pending(b) == workers[b].pc \in {"pending", "queued"}
InFlight(b) == workers[b].pc \in {"request", "new", "begin", "read", "finish", "push"}
Completed(b) == workers[b].pc = "completed"
Failed(b) == workers[b].pc = "failed"

\* line 149: the Err arm panics, whatever the attempt's number
PanickedMut(w, kind) == [w EXCEPT !.pc = "push", !.error = kind]
Panicked(w, kind) == [w EXCEPT !.pc = "failed", !.error = kind]

\* boxcar::Vec::push
BoxcarPushMut(log, x) == IF log = <<>> THEN <<x>> ELSE [log EXCEPT ![Len(log)] = x]
BoxcarPush(log, x) == Append(log, x)

\* the scope's closure runs on a thread of the pool until its loop ends
Spawning == dpc = "scope" /\ spawned < Len(buckets)
FreeThreadsMut == NUM_THREADS
FreeThreads ==
    NUM_THREADS - (IF Spawning THEN 1 ELSE 0)
                - Cardinality({b \in DOMAIN workers : InFlight(b)})

\* line 97: the distinct versions of the buckets
BucketVersionsMut(bs) == Versions
BucketVersions(bs) == {bs[b].version : b \in 1..Len(bs)}

\* lines 92-102
DownloadStart ==
    /\ ppc = "done"
    /\ dpc = "idle"
    /\ dpc' = "contexts"
    /\ versions' = BucketVersions(buckets)
    /\ workers' = [b \in 1..Len(buckets) |-> WorkerInit]
    /\ UNCHANGED <<download_contexts, context_requests, spawned, completed_contexts, fs>>
    /\ UNCHANGED planVars

\* lines 104-121: one context request; a failed one panics
ResolveContext ==
    /\ dpc = "contexts"
    /\ \E v \in versions, ok \in BOOLEAN :
         /\ context_requests' =
                IF v \in DOMAIN context_requests
                THEN [context_requests EXCEPT ![v] = @ + 1]
                ELSE context_requests @@ (v :> 1)
         /\ IF ok
            THEN /\ download_contexts' = download_contexts @@ (v :> ServerContext(v))
                 /\ versions' = versions \ {v}
                 /\ dpc' = dpc
            ELSE /\ dpc' = "aborted"
                 /\ UNCHANGED <<download_contexts, versions>>
    /\ UNCHANGED <<spawned, workers, completed_contexts, fs>>
    /\ UNCHANGED planVars

\* line 104: the loop over versions has ended
ContextsResolvedMut == TRUE
ContextsResolved == versions = {}

\* lines 123-127: the scope opens
EnterScope ==
    /\ dpc = "contexts"
    /\ ContextsResolved
    /\ dpc' = "scope"
    /\ UNCHANGED <<versions, download_contexts, context_requests, spawned, workers, completed_contexts, fs>>
    /\ UNCHANGED planVars

\* lines 128-133: the loop's body for the next bucket
Spawn ==
    /\ dpc = "scope"
    /\ spawned < Len(buckets)
    /\ LET b == spawned + 1 IN
       IF buckets[b].version \in DOMAIN download_contexts
       THEN /\ workers' = [workers EXCEPT ![b].pc = "queued",
                              ![b].context = download_contexts[buckets[b].version]]
            /\ spawned' = b
            /\ dpc' = dpc
       ELSE /\ dpc' = "scope_panicked"
            /\ UNCHANGED <<workers, spawned>>
    /\ UNCHANGED <<versions, download_contexts, context_requests, completed_contexts, fs>>
    /\ UNCHANGED planVars

\* lines 133-137 and 161-164: a thread of the pool takes the task, enters
\* the retry loop and sends the chunk request
StartBucket(b) ==
    /\ dpc \in {"scope", "scope_panicked"}
    /\ workers[b].pc = "queued"
    /\ FreeThreads > 0
    /\ workers[b].attempts < RETRY_COUNT
    /\ workers' = [workers EXCEPT ![b].pc = "request", ![b].attempts = @ + 1,
                      ![b].request = ChunkBody(workers[b].context, Drops(b))]
    /\ UNCHANGED <<dpc, versions, download_contexts, context_requests, spawned, completed_contexts, fs>>
    /\ UNCHANGED planVars

\* lines 164-179: the answer arrives and its header is checked; every
\* selects the answers of AllHeads and AllBodies, else those of FewHeads
\* and FewBodies
Respond(b, every) ==
    /\ workers[b].pc = "request"
    /\ \E h \in (IF every THEN AllHeads(Drops(b)) ELSE FewHeads(Drops(b))) :
         LET w == [workers[b] EXCEPT !.hdr = h.hdr]
             check == CheckLengths(h.hdr, Drops(b), 1)
         IN IF h.kind # "ok"
            THEN workers' = [workers EXCEPT ![b] = Panicked(w, h.kind)]
            ELSE IF check # "ok"
            THEN workers' = [workers EXCEPT ![b] = Panicked(w, check)]
            ELSE \E r \in (IF every THEN AllBodies(Drops(b)) ELSE FewBodies(Drops(b))) :
                   workers' = [workers EXCEPT ![b] =
                       [w EXCEPT !.pc = "new", !.body = r.bytes, !.tailErr = r.tailErr]]
    /\ UNCHANGED <<dpc, versions, download_contexts, context_requests, spawned, completed_contexts, fs>>
    /\ UNCHANGED planVars

\* download_internals.rs 61-67: one writer per drop, opened in drop order;
\* opened is the number of files opened before an open fails
PipelineNew(b) ==
    /\ workers[b].pc = "new"
    /\ \E opened \in 0..Len(Drops(b)) :
         LET paths == [k \in 1..opened |-> Drops(b)[k].filename]
             Created[k \in 0..opened] ==
                 IF k = 0 THEN fs ELSE OpenFile(Created[k - 1], paths[k])
         IN /\ fs' = Created[opened]
            /\ workers' = [workers EXCEPT ![b] =
                 IF opened < Len(Drops(b)) THEN Panicked(@, "open")
                 ELSE [@ EXCEPT !.pc = "begin", !.di = 0,
                          !.destination = [k \in 1..opened |-> DropWriterNew(paths[k])]]]
    /\ UNCHANGED <<dpc, versions, download_contexts, context_requests, spawned, completed_contexts>>
    /\ UNCHANGED planVars

\* the task fails with its pipeline alive: the writers are dropped, and the
\* final flushes of those in lost fail
PipelineFailed(b, w, kind) ==
    /\ \E lost \in SUBSET Buffered(w.destination) :
         fs' = DropWriters(w.destination, 1, fs, lost)
    /\ workers' = [workers EXCEPT ![b] = Panicked(w, kind)]

\* download_internals.rs 71-77, 96-98: the next drop's writer is sought to
\* the drop's start; past the last drop copy returns Ok
CopyBegin(b) ==
    /\ workers[b].pc = "begin"
    /\ LET w == workers[b]
           k == w.di + 1
       IN IF w.di = Len(Drops(b))
          THEN /\ workers' = [workers EXCEPT ![b].pc = "finish"]
               /\ fs' = fs
          ELSE \E ok \in (IF Drops(b)[k].start # 0 THEN BOOLEAN ELSE {TRUE}) :
                 IF ~ok THEN PipelineFailed(b, w, "seek")
                 ELSE /\ workers' = [workers EXCEPT ![b] =
                           [w EXCEPT !.pc = "read",
                                     !.remaining = Drops(b)[k].length,
                                     !.destination[k] =
                                         IF Drops(b)[k].start # 0
                                         THEN DropWriterSeek(@, Drops(b)[k].start)
                                         ELSE @]]
                      /\ fs' = fs
    /\ UNCHANGED <<dpc, versions, download_contexts, context_requests, spawned, completed_contexts>>
    /\ UNCHANGED planVars

\* line 79
ReadSizeMut(remaining) == MAX_PACKET_LENGTH
ReadSize(remaining) == Min(MAX_PACKET_LENGTH, remaining)

\* Response::read into a buffer of size bytes with avail bytes of the body
\* left: a read of 0 bytes, -1 for an error, or 1..size bytes
ReadOutcomes(size, avail, tailErr) ==
    IF size = 0 THEN {0}
    ELSE IF avail = 0 THEN (IF tailErr THEN {-1} ELSE {0})
    ELSE 1..Min(size, avail)

\* lines 78-95: one iteration of the loop of the current drop
CopyRead(b) ==
    /\ workers[b].pc = "read"
    /\ LET w == workers[b]
           k == w.di + 1
           dw == w.destination[k]
           size == ReadSize(w.remaining)
       IN \E n \in ReadOutcomes(size, Len(w.body) - w.consumed, w.tailErr) :
            IF n < 0 THEN PipelineFailed(b, w, "read")
            ELSE
              LET bytes == SubSeq(w.body, w.consumed + 1, w.consumed + n)
                  w1 == [w EXCEPT !.consumed = @ + n, !.remaining = @ - n]
              IN \E ok \in (IF NeedsFlush(dw, bytes) THEN BOOLEAN ELSE {TRUE}) :
                   IF ~ok
                   THEN PipelineFailed(b,
                            [w1 EXCEPT !.destination[k].hasher = Md5Consume(@, bytes)],
                            "write")
                   ELSE /\ fs' = IF NeedsFlush(dw, bytes) THEN FlushedDisk(dw, fs) ELSE fs
                        /\ workers' = [workers EXCEPT ![b] =
                             [w1 EXCEPT !.destination[k] = DropWriterWrite(dw, bytes),
                                        !.pc = IF w1.remaining = 0 THEN "begin" ELSE "read",
                                        !.di = IF w1.remaining = 0 THEN @ + 1 ELSE @]]
    /\ UNCHANGED <<dpc, versions, download_contexts, context_requests, spawned, completed_contexts>>
    /\ UNCHANGED planVars

\* download_internals.rs 106-109 and download.rs 185-198: every writer is
\* flushed and its digest taken, in drop order; failAt is the writer whose
\* flush fails (0: none); then the digests are compared with the checksums
FinishBucket(b) ==
    /\ workers[b].pc = "finish"
    /\ LET w == workers[b]
           ws == w.destination
       IN \E failAt \in {0} \cup Buffered(ws) :
            IF failAt # 0
            THEN /\ \E lost \in SUBSET {k \in Buffered(ws) : k >= failAt} :
                      fs' = DropWriters(ws, 1, fs, lost)
                 /\ workers' = [workers EXCEPT ![b] = Panicked(w, "flush")]
            ELSE LET digests == [k \in 1..Len(ws) |-> Md5Finalize(ws[k].hasher)]
                     mismatch == ChecksumMismatch(Drops(b), digests)
                     w1 == [w EXCEPT !.destination = [k \in 1..Len(ws) |-> FlushedWriter(ws[k])],
                                     !.digests = digests,
                                     !.mismatch = mismatch]
                 IN /\ fs' = DropWriters(ws, 1, fs, {})
                    /\ workers' = [workers EXCEPT ![b] =
                         IF CompareOutcome(mismatch) # "ok"
                         THEN Panicked(w1, CompareOutcome(mismatch))
                         ELSE [w1 EXCEPT !.pc = IF Drops(b) = <<>> THEN "completed"
                                                 ELSE "push"]]
    /\ UNCHANGED <<dpc, versions, download_contexts, context_requests, spawned, completed_contexts>>
    /\ UNCHANGED planVars

\* lines 138-147: the Ok arm pushes one checksum; after the last the task
\* returns
PushChecksum(b) ==
    /\ workers[b].pc = "push"
    /\ LET k == workers[b].pushed + 1 IN
         /\ completed_contexts' = BoxcarPush(completed_contexts, Drops(b)[k].checksum)
         /\ workers' = [workers EXCEPT ![b].pushed = k,
                           ![b].pc = IF k = Len(Drops(b)) THEN "completed" ELSE "push"]
    /\ UNCHANGED <<dpc, versions, download_contexts, context_requests, spawned, fs>>
    /\ UNCHANGED planVars

\* lines 155-157: a panic of the closure or of a task is thrown again from
\* the scope; otherwise download prints "finished download!" and returns
ScopeResultMut(panicked) == "finished"
ScopeResult(panicked) == IF panicked THEN "aborted" ELSE "finished"

\* lines 155-158: the scope ends when its closure and every task it spawned
\* have ended; a task's panic is thrown again from the scope
ScopeJoin ==
    /\ \/ dpc = "scope" /\ spawned = Len(buckets)
       \/ dpc = "scope_panicked"
    /\ \A b \in 1..spawned : Completed(b) \/ Failed(b)
    /\ dpc' = ScopeResult(dpc = "scope_panicked" \/ \E b \in 1..spawned : Failed(b))
    /\ UNCHANGED <<versions, download_contexts, context_requests, spawned, workers, completed_contexts, fs>>
    /\ UNCHANGED planVars

DownloadInit(Disks) ==
    /\ dpc = "idle"
    /\ versions = {}
    /\ download_contexts = <<>>
    /\ context_requests = <<>>
    /\ spawned = 0
    /\ workers = <<>>
    /\ completed_contexts = <<>>
    /\ fs \in Disks
    /\ fs0 = fs

PlanInit(M) ==
    /\ manifest \in M
    /\ ppc = "loop"
    /\ todo = DOMAIN manifest
    /\ cur = NoFile
    /\ idx = 0
    /\ file_running_offset = 0
    /\ buckets = <<>>
    /\ current_buckets = <<>>
    /\ current_bucket_sizes = <<>>
    /\ sealed = {}

(***************************************************************************)
(* generate_buckets as a function of the manifest and of the HashMaps'     *)
(* iteration orders.                                                       *)
(***************************************************************************)
RECURSIVE PlanChunk(_, _, _, _, _)
\* lines 32-80 for the ranges i.. of the chunk of file f
PlanChunk(st, f, chunk, i, off) ==
    IF i >= Len(chunk.lengths) THEN st
    ELSE PlanChunk(PlanDropStep(st, chunk.version_name, DropOf(f, chunk, i, off)),
                   f, chunk, i + 1, off + chunk.lengths[i + 1])

RECURSIVE PlanChunks(_, _, _)
\* lines 26-81 for the files of order
PlanChunks(st, m, order) ==
    IF order = <<>> THEN st
    ELSE PlanChunks(PlanChunk(st, order[1], m[order[1]], 0, 0), m, Tail(order))

RECURSIVE SealAll(_, _, _)
\* lines 83-87 for the versions of order
SealAll(bs, open, order) ==
    IF order = <<>> THEN bs
    ELSE SealAll(SealOpen(bs, open[order[1]]), open, Tail(order))

Orders(S) == {o \in [1..Cardinality(S) -> S] : \A x \in S : \E k \in DOMAIN o : o[k] = x}

PlanStart == [buckets |-> <<>>, current_buckets |-> <<>>, current_bucket_sizes |-> <<>>]

\* the versions that have an open bucket when the manifest is exhausted
OpenVersions(m, fileOrder) == DOMAIN PlanChunks(PlanStart, m, fileOrder).current_buckets

\* lines 17-90, for fileOrder an order of the manifest's files and
\* versionOrder an order of OpenVersions
GenerateBuckets(m, fileOrder, versionOrder) ==
    LET st == PlanChunks(PlanStart, m, fileOrder)
    IN SealAll(st.buckets, st.current_buckets, versionOrder)

\* the buckets generate_buckets can return for manifest m
BucketSet(m) ==
    UNION {LET bs == GenerateBuckets(m, o, CHOOSE vo \in Orders(OpenVersions(m, o)) : TRUE)
           IN {bs[k] : k \in 1..Len(bs)} : o \in Orders(DOMAIN m)}

BucketsOf(M) == UNION {BucketSet(m) : m \in M}

(***************************************************************************)
(* The specifications.                                                     *)
(***************************************************************************)
\* the manifests over the subsets of Files with chunks of CA and of CB
ManifestsOf(CA, CB) ==
    {[f \in S |-> m[f]] : S \in SUBSET Files, m \in [a : CA, b : CB]}

\* every chunk of file f within the bounds, checksums right
ChunksOf(f, V, bad) ==
    {DropChunk(f, v, lens, bad) : v \in V, lens \in SeqsUpTo(0..MaxLen, MaxRanges)}

\* file a is of version v1 and file b of either version: the manifests with
\* a of version v2 are these with the versions' names exchanged
PlanManifests == ManifestsOf(ChunksOf("a", {"v1"}, {}), ChunksOf("b", Versions, {}))

\* generate_buckets alone, on every manifest within the bounds
InitPlan == PlanInit(PlanManifests) /\ DownloadInit({<<>>})

NextPlan == PlanNextFile \/ PlanDrop \/ PlanEndLoop \/ PlanSeal \/ PlanReturn

SpecPlan == InitPlan /\ [][NextPlan]_vars

\* an install directory that is empty, or holds an older, longer file a
Disks == {<<>>, "a" :> <<1, 1, 1, 1, 1, 1>>}

\* the whole run, main's generate_buckets followed by download, on a few
\* manifests and with a server that answers as FewHeads and FewBodies
RunManifests ==
    ManifestsOf({DropChunk("a", "v1", <<2, 2>>, {}), DropChunk("a", "v1", <<1, 1>>, {1})},
                {DropChunk("b", "v2", <<3>>, {}), DropChunk("b", "v1", <<1>>, {})})

Init == PlanInit(RunManifests) /\ DownloadInit(Disks)

Next ==
    \/ NextPlan
    \/ DownloadStart
    \/ ResolveContext
    \/ EnterScope
    \/ Spawn
    \/ \E b \in DOMAIN workers : StartBucket(b)
    \/ \E b \in DOMAIN workers : Respond(b, FALSE)
    \/ \E b \in DOMAIN workers : PipelineNew(b)
    \/ \E b \in DOMAIN workers : CopyBegin(b)
    \/ \E b \in DOMAIN workers : CopyRead(b)
    \/ \E b \in DOMAIN workers : FinishBucket(b)
    \/ \E b \in DOMAIN workers : PushChecksum(b)
    \/ ScopeJoin

Spec == Init /\ [][Next]_vars

\* one task from its request on, for every bucket generate_buckets returns
\* for the manifests of file a within the bounds, alone or beside a file b
\* of one byte, and with a server that answers as AllHeads and AllBodies
BucketManifests ==
    ManifestsOf(ChunksOf("a", {"v1"}, {}), {DropChunk("b", "v1", <<1>>, {})})

InitBucket ==
    /\ manifest \in BucketManifests
    /\ \E b \in BucketSet(manifest) : buckets = <<b>>
    /\ ppc = "done"
    /\ todo = {}
    /\ cur = NoFile
    /\ idx = 0
    /\ file_running_offset = 0
    /\ current_buckets = <<>>
    /\ current_bucket_sizes = <<>>
    /\ sealed = {}
    /\ dpc = "scope"
    /\ versions = {}
    /\ download_contexts = (buckets[1].version :> ServerContext(buckets[1].version))
    /\ context_requests = (buckets[1].version :> 1)
    /\ spawned = 1
    /\ workers = <<[WorkerInit EXCEPT !.pc = "request", !.attempts = 1,
                       !.context = download_contexts[buckets[1].version],
                       !.request = ChunkBody(download_contexts[buckets[1].version],
                                             buckets[1].drops)]>>
    /\ completed_contexts = <<>>
    /\ fs \in Disks
    /\ fs0 = fs

NextBucket ==
    \/ Respond(1, TRUE)
    \/ PipelineNew(1)
    \/ CopyBegin(1)
    \/ CopyRead(1)
    \/ FinishBucket(1)
    \/ PushChecksum(1)

SpecBucket == InitBucket /\ [][NextBucket]_vars

(***************************************************************************)
(* Claims about generate_buckets (SpecPlan).                               *)
(***************************************************************************)
RECURSIVE Flatten(_)
\* the drops of a list of buckets, in bucket order
Flatten(bs) == IF bs = <<>> THEN <<>> ELSE bs[1].drops \o Flatten(Tail(bs))

Lengths(ds) == [k \in 1..Len(ds) |-> ds[k].length]

\* the drops of file f among ds, as positions of ds
DropsOfFile(ds, f) == {k \in 1..Len(ds) : ds[k].filename = f}

RECURSIVE SumOver(_, _)
\* the sum of the lengths of the drops of ds at the positions K
SumOver(ds, K) ==
    IF K = {} THEN 0
    ELSE LET k == CHOOSE x \in K : TRUE IN ds[k].length + SumOver(ds, K \ {k})

SoloShape(b) ==
    Len(b.drops) = 1 /\ b.drops[1].length >= TARGET_BUCKET_SIZE
PackedShape(b) ==
    /\ Len(b.drops) \in 1..MAX_FILES_PER_BUCKET
    /\ SumSeq(Lengths(b.drops)) < TARGET_BUCKET_SIZE

\* C1: every bucket generate_buckets returns is either one drop of length
\* >= TARGET_BUCKET_SIZE, or 1..MAX_FILES_PER_BUCKET drops whose lengths sum
\* to less than TARGET_BUCKET_SIZE, and never both; no bucket is empty and a
\* drop of length >= TARGET_BUCKET_SIZE is alone in its bucket.
C1_BucketShape ==
    ppc = "done" =>
        \A i \in 1..Len(buckets) :
            LET b == buckets[i] IN
            /\ SoloShape(b) \/ PackedShape(b)
            /\ ~(SoloShape(b) /\ PackedShape(b))
            /\ b.drops # <<>>
            /\ \A k \in 1..Len(b.drops) :
                   b.drops[k].length >= TARGET_BUCKET_SIZE => Len(b.drops) = 1

\* a returned plan holding a solo bucket, a bucket sealed at the drop limit
\* and a bucket sealed one byte under the size threshold
C1_Witness ==
    /\ ppc = "done"
    /\ \E i \in 1..Len(buckets) : SoloShape(buckets[i])
    /\ \E i \in 1..Len(buckets) :
          /\ Len(buckets[i].drops) = MAX_FILES_PER_BUCKET
          /\ SumSeq(Lengths(buckets[i].drops)) = TARGET_BUCKET_SIZE - 1
    /\ \E i \in 1..Len(buckets) : Len(buckets[i].drops) = 1 /\ PackedShape(buckets[i])

\* the drops of the returned plan that come from range i (0-based) of file f
PlannedDrops(f, i) ==
    LET ds == Flatten(buckets)
    IN {ds[k] : k \in {x \in DropsOfFile(ds, f) : ds[x].index = i}}

\* contiguity of the drops of every chunk: a drop exists for every range,
\* it starts at the sum of the lengths before it (so at 0 for range 0) and
\* has the range's length, and the lengths add up to the size of the file
ChunkContiguous ==
    \A f \in DOMAIN manifest :
        LET lens == manifest[f].lengths
            ds   == Flatten(buckets)
        IN /\ \A i \in 0..(Len(lens) - 1) :
                 /\ PlannedDrops(f, i) # {}
                 /\ \A d \in PlannedDrops(f, i) :
                        /\ d.start = SumSeq(Prefix(lens, i))
                        /\ d.length = lens[i + 1]
           /\ SumOver(ds, DropsOfFile(ds, f)) = SumSeq(lens)

\* C2 as stated: for every chunk the drops, in range-index order, have
\* strictly increasing, contiguous start offsets beginning at 0 and lengths
\* that sum to the size of the file.
C2_StrictlyIncreasingStarts ==
    ppc = "done" =>
        /\ ChunkContiguous
        /\ \A f \in DOMAIN manifest :
              \A i, j \in 0..(Len(manifest[f].lengths) - 1) :
                  i < j => \A d \in PlannedDrops(f, i), e \in PlannedDrops(f, j) :
                              d.start < e.start

\* C2 amended: the start offsets begin at 0, are contiguous and never
\* decrease, and increase strictly after every drop of positive length
\* (a range of length 0 shares its start with the next range); the lengths
\* sum to the size of the file.
C2_ContiguousStarts ==
    ppc = "done" =>
        /\ ChunkContiguous
        /\ \A f \in DOMAIN manifest :
              \A i, j \in 0..(Len(manifest[f].lengths) - 1) :
                  i < j => \A d \in PlannedDrops(f, i), e \in PlannedDrops(f, j) :
                              /\ d.start + d.length <= e.start
                              /\ d.length > 0 => d.start < e.start

\* a returned plan with a two-range file whose second drop starts past 0
\* and sits in another bucket than the first
C2_Witness ==
    /\ ppc = "done"
    /\ \E f \in DOMAIN manifest :
          /\ Len(manifest[f].lengths) = 2
          /\ \E i, j \in 1..Len(buckets) :
                /\ i # j
                /\ \E d \in {buckets[i].drops[k] : k \in 1..Len(buckets[i].drops)},
                       e \in {buckets[j].drops[k] : k \in 1..Len(buckets[j].drops)} :
                      /\ d.filename = f /\ e.filename = f
                      /\ d.index = 0 /\ e.index = 1
                      /\ d.start = 0 /\ e.start = d.length /\ e.start > 0

(***************************************************************************)
(* Claims about download_game_bucket and the pipeline (SpecBucket) and     *)
(* about the whole run (Spec).                                             *)
(***************************************************************************)
\* the task's answer passed the header check of lines 171-179
HeaderAccepted(b) ==
    \/ workers[b].pc \in {"new", "begin", "read", "finish", "push", "completed"}
    \/ workers[b].error \in {"open", "seek", "read", "write", "flush", "checksum"}

\* the task's pipeline exists: its writers hold their files open
WritersOpen(b) == workers[b].pc \in {"begin", "read", "finish"}

\* line 174 or line 177: the header was refused
HeaderRefused(b) == Failed(b) /\ workers[b].error \in {"count", "value"}

\* C3: the Content-Lengths header is accepted only if it lists exactly as
\* many lengths as the bucket has drops and every listed value is the
\* length of its drop; otherwise the attempt fails before any byte is
\* demultiplexed.
C3_HeaderMatchesExactly ==
    \A b \in DOMAIN workers :
        HeaderAccepted(b) =>
            /\ Len(workers[b].hdr) = Len(Drops(b))
            /\ \A i \in 1..Len(workers[b].hdr) :
                   /\ ParseUsize(workers[b].hdr[i]).ok
                   /\ ParseUsize(workers[b].hdr[i]).value = Drops(b)[i].length

\* C4: a bucket fails, and the run with it, only after RETRY_COUNT
\* attempts for that bucket have failed.
C4_FailsOnlyAfterRetries ==
    \A b \in DOMAIN workers : Failed(b) => workers[b].attempts = RETRY_COUNT

AnyWorkerStarted == \E b \in DOMAIN workers : workers[b].pc # "pending"

\* C5: no task is spawned and no chunk request is sent before a context
\* has been obtained for the version of every bucket, and the mapping
\* from versions to contexts never changes once a task has been spawned.
C5_ContextsBeforeWorkers ==
    /\ [](AnyWorkerStarted =>
            \A b \in 1..Len(buckets) :
                /\ buckets[b].version \in DOMAIN download_contexts
                /\ download_contexts[buckets[b].version] = ServerContext(buckets[b].version))
    /\ [][AnyWorkerStarted => download_contexts' = download_contexts]_vars

\* two tasks in flight, their buckets of different versions, both contexts
\* resolved
C5_Witness ==
    \E b, c \in DOMAIN workers :
        /\ InFlight(b) /\ InFlight(c)
        /\ buckets[b].version # buckets[c].version
        /\ workers[b].context = ServerContext(buckets[b].version)
        /\ workers[c].context = ServerContext(buckets[c].version)

\* C6 as stated: no two tasks hold an open writer on the same destination
\* file at the same time.
C6_NoSharedFile ==
    \A b, c \in DOMAIN workers :
        b # c /\ WritersOpen(b) /\ WritersOpen(c) =>
            \A i \in 1..Len(Drops(b)), j \in 1..Len(Drops(c)) :
                workers[b].destination[i].path # workers[c].destination[j].path

\* the positions of its file that writer k of task b has written or holds
\* in its buffer
WrittenSpan(b, k) ==
    LET w == workers[b].destination[k]
    IN {p \in 0..(w.pos + Len(w.buf) - 1) : p >= Drops(b)[k].start}

DropRange(d) == {p \in 0..(d.start + d.length - 1) : p >= d.start}

\* C6 amended: two tasks may hold open writers on the same destination
\* file at the same time (a file's drops can lie in several buckets), but
\* every writer stays inside the byte range [start, start + length) of its
\* drop and the ranges of writers of different tasks on one file are
\* disjoint, so no byte of a file is written by two tasks.
C6_DisjointWriters ==
    \A b, c \in DOMAIN workers :
        WritersOpen(b) /\ WritersOpen(c) =>
            \A i \in 1..Len(Drops(b)), j \in 1..Len(Drops(c)) :
                /\ workers[b].destination[i].path = Drops(b)[i].filename
                /\ WrittenSpan(b, i) \subseteq DropRange(Drops(b)[i])
                /\ (b # c /\ Drops(b)[i].filename = Drops(c)[j].filename) =>
                       /\ DropRange(Drops(b)[i]) \cap DropRange(Drops(c)[j]) = {}
                       /\ WrittenSpan(b, i) \cap WrittenSpan(c, j) = {}

\* two tasks, each with bytes written through an open writer on the same
\* file
C6_Witness ==
    \E b, c \in DOMAIN workers :
        /\ b # c /\ WritersOpen(b) /\ WritersOpen(c)
        /\ \E i \in 1..Len(Drops(b)), j \in 1..Len(Drops(c)) :
              /\ Drops(b)[i].filename = Drops(c)[j].filename
              /\ WrittenSpan(b, i) # {} /\ WrittenSpan(c, j) # {}

Joined == dpc \in {"finished", "aborted"}

\* the number of entries of s equal to x
Count(s, x) == Cardinality({k \in 1..Len(s) : s[k] = x})

\* the checksums of the drops of the buckets that completed, bucket by
\* bucket
CompletedChecksums ==
    LET done == SelectSeq([b \in 1..Len(buckets) |-> b], LAMBDA b : Completed(b))
        ds == Flatten([k \in 1..Len(done) |-> buckets[done[k]]])
    IN [k \in 1..Len(ds) |-> ds[k].checksum]

\* C7: once the scope has ended, the log holds one entry for every drop of
\* every bucket that completed (none lost, none twice) and none for a drop
\* of a bucket that did not complete.
C7_LogIsCompletedDrops ==
    Joined =>
        /\ Len(completed_contexts) = Len(CompletedChecksums)
        /\ \A k \in 1..Len(completed_contexts) :
               Count(completed_contexts, completed_contexts[k])
                   = Count(CompletedChecksums, completed_contexts[k])

\* the scope has ended with a failed bucket and two completed ones, the
\* later bucket's checksum pushed first
C7_Witness ==
    /\ Joined
    /\ \E b \in DOMAIN workers : Failed(b)
    /\ \E b, c \in DOMAIN workers :
          /\ b < c /\ Completed(b) /\ Completed(c)
          /\ Drops(b)[1].checksum # Drops(c)[1].checksum
          /\ completed_contexts = <<Drops(c)[1].checksum, Drops(b)[1].checksum>>

\* the bytes of the body that belong to drop k of task b
BodyRange(b, k) ==
    LET before == SumSeq(Lengths(Prefix(Drops(b), k - 1)))
    IN SubSeq(workers[b].body, before + 1, before + Drops(b)[k].length)

\* the bytes of the file of drop d in the drop's range
FileRange(d) == SubSeq(fs[d.filename], d.start + 1, d.start + d.length)

\* C8: after copy and finish on a stream that is the concatenation of the
\* drops' ranges, every destination file holds range i's bytes at offset
\* drop[i].start, and finish returned one digest per drop, digest i being
\* the MD5 of range i's bytes.
C8_RoundTrip ==
    \A b \in DOMAIN workers :
        workers[b].pc \in {"push", "completed"} =>
            /\ Len(workers[b].digests) = Len(Drops(b))
            /\ \A i \in 1..Len(Drops(b)) :
                   /\ Drops(b)[i].filename \in DOMAIN fs
                   /\ Drops(b)[i].length > 0 =>
                          /\ Len(fs[Drops(b)[i].filename]) >=
                                 Drops(b)[i].start + Drops(b)[i].length
                          /\ FileRange(Drops(b)[i]) = BodyRange(b, i)
                   /\ workers[b].digests[i] = Md5(BodyRange(b, i))

\* a finished transfer of two ranges of one file, the second at a start
\* past 0, on a stream of exactly their bytes, into a file that existed
C8_Witness ==
    \E b \in DOMAIN workers :
        /\ workers[b].pc = "completed"
        /\ Len(Drops(b)) = 2
        /\ Drops(b)[1].filename = Drops(b)[2].filename
        /\ Drops(b)[1].length > 0 /\ Drops(b)[2].length > 0
        /\ Len(workers[b].body) = SumSeq(Lengths(Drops(b)))
        /\ workers[b].body # ExactBody(Drops(b))
        /\ Len(fs[Drops(b)[1].filename]) > SumSeq(Lengths(Drops(b)))

CopyFailed(b) == workers[b].error \in {"seek", "read", "write"}

\* C9: a read or write error while copying drop k fails the attempt at
\* once: no byte of a later drop has been read from the stream or written
\* through its writer, and the attempt appends none of the bucket's
\* checksums to the log.
C9_CopyErrorAborts ==
    /\ Len(completed_contexts) = SumSeq([b \in DOMAIN workers |-> workers[b].pushed])
    /\ \A b \in DOMAIN workers :
          CopyFailed(b) =>
              /\ Failed(b)
              /\ workers[b].consumed <= SumSeq(Lengths(Prefix(Drops(b), workers[b].di + 1)))
              /\ \A j \in (workers[b].di + 2)..Len(Drops(b)) :
                     workers[b].destination[j] = DropWriterNew(Drops(b)[j].filename)
              /\ workers[b].pushed = 0
              /\ workers[b].digests = <<>>

\* a read error in the first of two drops of positive length: the stream
\* broke before the first drop's bytes were all delivered
C9_Witness ==
    \E b \in DOMAIN workers :
        /\ Failed(b) /\ workers[b].error = "read"
        /\ Len(Drops(b)) = 2 /\ workers[b].di = 0
        /\ Drops(b)[1].length > 0 /\ Drops(b)[2].length > 0
        /\ workers[b].tailErr
        /\ workers[b].destination[2] = DropWriterNew(Drops(b)[2].filename)

\* C10: a digest that differs from the manifest's checksum does not fail
\* the attempt: the task is not retried, completes, and pushes the
\* checksum of each of its drops as it does when the digests match.
C10_MismatchIsNotFatal ==
    \A b \in DOMAIN workers :
        (workers[b].digests # <<>> /\ ChecksumMismatch(Drops(b), workers[b].digests)) =>
            /\ workers[b].mismatch
            /\ workers[b].pc \in {"push", "completed"}
            /\ workers[b].error = "none"
            /\ workers[b].attempts = 1
            /\ Completed(b) => workers[b].pushed = Len(Drops(b))
            /\ \A k \in 1..workers[b].pushed :
                   Count(completed_contexts, Drops(b)[k].checksum) >= 1

\* a run that finished with a completed bucket whose digest differed
C10_Witness ==
    /\ dpc = "finished"
    /\ \E b \in DOMAIN workers :
          /\ Completed(b)
          /\ ChecksumMismatch(Drops(b), workers[b].digests)
          /\ workers[b].pushed = Len(Drops(b))

(***************************************************************************)
(* Claims about the end of the run (Spec).                                 *)
(***************************************************************************)
\* C11: download reaches its successful end only if every bucket has
\* completed; while a bucket is failed the run is never at its successful
\* end; and a task that has completed or failed never changes again, so it
\* sends no other request.
C11_NoPartialSuccess ==
    /\ [](dpc = "finished" => \A b \in DOMAIN workers : Completed(b))
    /\ []((\E b \in DOMAIN workers : Failed(b)) => dpc # "finished")
    /\ [][\A b \in DOMAIN workers :
              (Completed(b) \/ Failed(b)) => workers'[b] = workers[b]]_vars

\* the scope has ended abnormally with one bucket completed, its checksums
\* in the log, and another failed
C11_Witness ==
    /\ dpc = "aborted"
    /\ \E b, c \in DOMAIN workers :
          /\ Completed(b) /\ workers[b].pushed = Len(Drops(b))
          /\ Failed(c)
          /\ completed_contexts # <<>>

(***************************************************************************)
(* Claims about the sealing of open buckets (SpecPlan).                    *)
(***************************************************************************)
\* the drops of the open bucket of version v
OpenDrops(v) == IF v \in DOMAIN current_buckets THEN current_buckets[v].drops ELSE <<>>

\* the range the planner's inner loop is about to turn into a drop
NextLength == manifest[cur].lengths[idx + 1]
NextDrop ==
    DownloadDrop(cur, idx, file_running_offset, NextLength, manifest[cur].checksums[idx + 1])

\* the condition under which the claim says the open bucket is sealed, on
\* the lengths of the drops the open bucket holds
MustSeal(v, length) ==
    /\ OpenDrops(v) # <<>>
    /\ \/ SumSeq(Lengths(OpenDrops(v))) + length >= TARGET_BUCKET_SIZE
       \/ Len(OpenDrops(v)) >= MAX_FILES_PER_BUCKET

\* C12: before a drop below the threshold is added, the open bucket of its
\* version is sealed exactly when it is non-empty and the running total plus
\* the drop's length reaches the threshold or the bucket holds
\* MAX_FILES_PER_BUCKET drops; the sealed bucket holds exactly the drops
\* accumulated so far, and the whole drop becomes the first drop of the
\* version's next open bucket; otherwise it is appended to the open bucket.
\* Lengths [1, 2] at threshold 3 give [drop(0, 1)] and [drop(1, 2)].
C12_SealThenDefer ==
    /\ [][(ppc = "loop" /\ cur # NoFile /\ idx' = idx + 1
             /\ NextLength < TARGET_BUCKET_SIZE) =>
            LET v == manifest[cur].version_name
            IN IF MustSeal(v, NextLength)
               THEN /\ buckets' = Append(buckets, [version |-> v, drops |-> OpenDrops(v)])
                    /\ current_buckets'[v] = [version |-> v, drops |-> <<NextDrop>>]
               ELSE /\ buckets' = buckets
                    /\ current_buckets'[v] =
                           [version |-> v, drops |-> Append(OpenDrops(v), NextDrop)]]_vars
    /\ [](\A f \in DOMAIN manifest :
            (ppc = "done" /\ DOMAIN manifest = {f} /\ manifest[f].lengths = <<1, 2>>) =>
                /\ Len(buckets) = 2
                /\ Lengths(buckets[1].drops) = <<1>> /\ buckets[1].drops[1].start = 0
                /\ Lengths(buckets[2].drops) = <<2>> /\ buckets[2].drops[1].start = 1)

\* the planner has returned for one file with lengths [1, 2]: the second
\* range was deferred whole to a second bucket
C12_Witness ==
    /\ ppc = "done"
    /\ DOMAIN manifest = {"a"}
    /\ manifest["a"].lengths = <<1, 2>>
    /\ Len(buckets) = 2
    /\ buckets[2].drops = <<DropOf("a", manifest["a"], 1, 1)>>

(***************************************************************************)
(* Claims about the copy of one bucket (SpecBucket).                       *)
(***************************************************************************)
\* copy is at drop k of the task of bucket b: seeking or in its read loop
CopyingDrop(b, k) ==
    /\ workers[b].pc \in {"begin", "read"}
    /\ workers[b].di = k - 1
    /\ k <= Len(Drops(b))

\* C13: while copy is at a drop of length 0 it consumes no byte of the
\* stream and writes none; its one loop iteration ends the drop, the next
\* drop beginning at the same stream position; and finish returns for it
\* the digest of the empty input.
C13_ZeroLengthDrop ==
    /\ [](\A b \in DOMAIN workers :
            workers[b].pc \in {"push", "completed"} =>
                \A k \in 1..Len(Drops(b)) :
                    Drops(b)[k].length = 0 => workers[b].digests[k] = Md5(<<>>))
    /\ [][\A b \in DOMAIN workers : \A k \in 1..Len(Drops(b)) :
            (CopyingDrop(b, k) /\ Drops(b)[k].length = 0) =>
                /\ workers'[b].consumed = workers[b].consumed
                /\ workers[b].pc = "read" =>
                      /\ workers'[b].pc = "begin"
                      /\ workers'[b].di = k
                      /\ workers'[b].destination[k].buf = <<>>
                      /\ workers'[b].destination[k].hasher = Md5New]_vars

\* a completed bucket whose first drop is empty and whose second is not: the
\* second drop's bytes were taken from the start of the stream
C13_Witness ==
    \E b \in DOMAIN workers :
        /\ Completed(b)
        /\ Len(Drops(b)) = 2
        /\ Drops(b)[1].length = 0 /\ Drops(b)[2].length > 0
        /\ workers[b].digests[1] = Md5(<<>>)
        /\ workers[b].digests[2] = Md5(SubSeq(workers[b].body, 1, Drops(b)[2].length))
        /\ workers[b].consumed = Drops(b)[2].length

\* drops i and j of bucket b are two drops of one file
SameFile(b, i, j) == i # j /\ Drops(b)[i].filename = Drops(b)[j].filename

\* C14: when a bucket holds two drops of one file with disjoint ranges of
\* positive length,
\* after copy and finish each range is at its offset in the file, each
\* digest is the digest of its own range only, and the file's size is the
\* larger of start + length over the two drops.
C14_TwoDropsOneFile ==
    \A b \in DOMAIN workers :
        workers[b].pc \in {"push", "completed"} =>
            \A i, j \in 1..Len(Drops(b)) :
                (/\ SameFile(b, i, j)
                 /\ Drops(b)[i].length > 0 /\ Drops(b)[j].length > 0
                 /\ DropRange(Drops(b)[i]) \cap DropRange(Drops(b)[j]) = {}) =>
                    /\ workers[b].digests[i] = Md5(BodyRange(b, i))
                    /\ Len(fs[Drops(b)[i].filename]) =
                           Max(Drops(b)[i].start + Drops(b)[i].length,
                               Drops(b)[j].start + Drops(b)[j].length)
                    /\ FileRange(Drops(b)[i]) = BodyRange(b, i)

(***************************************************************************)
(* Further claims about generate_buckets (SpecPlan).                       *)
(***************************************************************************)
\* the (file, range index) pairs of the manifest
ManifestRanges ==
    UNION {{<<f, i>> : i \in 0..(Len(manifest[f].lengths) - 1)} : f \in DOMAIN manifest}

\* the positions of the drops of ds that are range i of file f
Occurrences(ds, f, i) == {k \in 1..Len(ds) : ds[k].filename = f /\ ds[k].index = i}

\* C15: when generate_buckets returns, every (file, range index) pair of
\* the manifest is a drop of exactly one bucket, exactly once; every drop of
\* a bucket is a range of the manifest, with the range's length; and the
\* buckets hold as many drops as the manifest has ranges.
C15_BucketsPartitionManifest ==
    ppc = "done" =>
        LET ds == Flatten(buckets)
        IN /\ \A p \in ManifestRanges : Cardinality(Occurrences(ds, p[1], p[2])) = 1
           /\ \A k \in 1..Len(ds) :
                 /\ <<ds[k].filename, ds[k].index>> \in ManifestRanges
                 /\ ds[k].length = manifest[ds[k].filename].lengths[ds[k].index + 1]
           /\ Len(ds) = Cardinality(ManifestRanges)
           /\ \A p \in ManifestRanges :
                 Cardinality({b \in 1..Len(buckets) :
                     Occurrences(buckets[b].drops, p[1], p[2]) # {}}) = 1

\* the planner has returned at least three buckets for two files of two
\* ranges each
C15_Witness ==
    /\ ppc = "done"
    /\ Cardinality(ManifestRanges) = 4
    /\ Cardinality(DOMAIN manifest) = 2
    /\ Len(buckets) >= 3
    /\ \E b \in 1..Len(buckets) : Len(buckets[b].drops) = 2

(***************************************************************************)
(* Further claims about the copy of one bucket (SpecBucket).               *)
(***************************************************************************)
\* C16: copy terminates on every stream: whenever it is in the read loop of
\* a drop, the next iteration changes the task's state (it consumes bytes,
\* ends the drop, or returns an error), so that no stream, and in
\* particular none that ends before the drop's full length was delivered,
\* keeps the loop running forever.
C16_CopyTerminates ==
    \A b \in DOMAIN workers :
        workers[b].pc = "read" => ENABLED <<CopyRead(b)>>_vars

(***************************************************************************)
(* Further claims about generate_buckets and the contexts.                 *)
(***************************************************************************)
\* the version of the manifest chunk drop d was derived from
ChunkVersion(d) == manifest[d.filename].version_name

\* C17: every drop of every bucket, returned or still open, was derived
\* from a chunk whose version_name is the bucket's version.
C17_DropsHaveBucketVersion ==
    /\ \A b \in 1..Len(buckets) :
          \A k \in 1..Len(buckets[b].drops) :
              ChunkVersion(buckets[b].drops[k]) = buckets[b].version
    /\ \A v \in DOMAIN current_buckets :
          /\ current_buckets[v].version = v
          /\ \A k \in 1..Len(current_buckets[v].drops) :
                 ChunkVersion(current_buckets[v].drops[k]) = v

\* the planner has returned buckets of two versions, one packed with two
\* drops and one holding a drop at the threshold alone
C17_Witness ==
    /\ ppc = "done"
    /\ \E b, c \in 1..Len(buckets) :
          /\ buckets[b].version # buckets[c].version
          /\ Len(buckets[b].drops) = 2
          /\ SoloShape(buckets[c])

(***************************************************************************)
(* Claims about the reads of copy (SpecBucket).                            *)
(***************************************************************************)
\* the stream position at which the bytes of drop k of bucket b begin
StreamStart(b, k) == SumSeq(Lengths(Prefix(Drops(b), k - 1)))

\* C18: every read of copy takes at most min(MAX_PACKET_LENGTH, remaining)
\* bytes; while drop k is copied the bytes consumed are those before the
\* drop plus the part of the drop already read, never a byte past the
\* drop's end, and the drop's writer has hashed exactly the bytes of the
\* stream from the drop's position on; when copy has returned Ok exactly
\* the sum of the lengths has been consumed.
C18_ReadsStayInDrop ==
    /\ [](\A b \in DOMAIN workers :
            LET w == workers[b]
                k == w.di + 1
            IN /\ w.pc = "begin" => w.consumed = StreamStart(b, k)
               /\ w.pc = "read" =>
                     /\ w.remaining \in 0..Drops(b)[k].length
                     /\ w.consumed = StreamStart(b, k) + Drops(b)[k].length - w.remaining
                     /\ w.destination[k].hasher =
                            Md5Consume(Md5New,
                                SubSeq(w.body, StreamStart(b, k) + 1, w.consumed))
               /\ w.pc \in {"finish", "push", "completed"} =>
                     w.consumed = SumSeq(Lengths(Drops(b))))
    /\ [][\A b \in DOMAIN workers :
            workers[b].pc = "read" =>
                workers'[b].consumed - workers[b].consumed \in
                    0..Min(MAX_PACKET_LENGTH, workers[b].remaining)]_vars

\* a completed bucket of two drops of positive length whose stream held
\* more bytes than the drops' lengths: the surplus was never read
C18_Witness ==
    \E b \in DOMAIN workers :
        /\ Completed(b)
        /\ Len(Drops(b)) = 2
        /\ Drops(b)[1].length > 0 /\ Drops(b)[2].length > 0
        /\ workers[b].consumed = SumSeq(Lengths(Drops(b)))
        /\ Len(workers[b].body) > workers[b].consumed

(***************************************************************************)
(* Claims about the contexts and the pool (Spec).                          *)
(***************************************************************************)
\* the context requests phase 1 has sent for version v
RequestsFor(v) == IF v \in DOMAIN context_requests THEN context_requests[v] ELSE 0

\* phase 2: the scope has been entered
PhaseTwo == dpc \in {"scope", "scope_panicked", "finished"}

\* C19: phase 1 never sends two context requests for one version and none
\* for a version no bucket has; when phase 2 has begun exactly one request
\* was sent for the version of every bucket and the mapping holds the
\* context of that version, so the context lookup of a bucket never fails.
C19_OneContextPerVersion ==
    /\ \A v \in Versions :
          /\ RequestsFor(v) <= 1
          /\ RequestsFor(v) = 1 => \E b \in 1..Len(buckets) : buckets[b].version = v
    /\ DOMAIN download_contexts \subseteq DOMAIN context_requests
    /\ PhaseTwo =>
          \A b \in 1..Len(buckets) :
              /\ RequestsFor(buckets[b].version) = 1
              /\ buckets[b].version \in DOMAIN download_contexts
              /\ download_contexts[buckets[b].version] = ServerContext(buckets[b].version)
    /\ dpc # "scope_panicked"

\* phase 2 has begun for three buckets of two versions, and a version's
\* second bucket has been given its context
C19_Witness ==
    /\ dpc = "scope"
    /\ Len(buckets) = 3
    /\ Cardinality(BucketVersions(buckets)) = 2
    /\ \A v \in BucketVersions(buckets) : RequestsFor(v) = 1
    /\ \E b, c \in 1..Len(buckets) :
          /\ b < c /\ c <= spawned
          /\ buckets[b].version = buckets[c].version
          /\ workers[c].context = download_contexts[buckets[c].version]

\* the buckets whose task holds a thread of the pool
InFlightBuckets == {b \in DOMAIN workers : InFlight(b)}

\* C20: at every moment at most NUM_THREADS buckets are in flight; a task is
\* spawned for one bucket at a time, in bucket order, and once; a bucket in
\* flight is requested whole, with all of its drops in one request; and no
\* bucket is started twice: it sends at most one request, and once it has
\* started it is never queued or requested again.
C20_BoundedConcurrency ==
    /\ [](Cardinality(InFlightBuckets) <= NUM_THREADS)
    /\ [](\A b \in DOMAIN workers :
            /\ workers[b].attempts <= 1
            /\ Pending(b) => workers[b].attempts = 0
            /\ workers[b].pc = "queued" <=> (b <= spawned /\ workers[b].attempts = 0)
            /\ InFlight(b) =>
                  workers[b].request = ChunkBody(download_contexts[buckets[b].version], Drops(b)))
    /\ [][\A b \in DOMAIN workers :
            /\ (workers[b].pc # "queued" /\ workers[b].pc # "request") =>
                   workers'[b].pc # "request"
            /\ (workers[b].pc # "pending" /\ workers[b].pc # "queued") =>
                   workers'[b].pc # "queued"]_vars

\* the pool is full: NUM_THREADS buckets are in flight and a third, spawned,
\* waits for a thread
C20_Witness ==
    /\ Cardinality(InFlightBuckets) = NUM_THREADS
    /\ \E b \in DOMAIN workers : workers[b].pc = "queued"
    /\ spawned = 3

(***************************************************************************)
(* Claims about the writes of different buckets to one file (Spec).        *)
(***************************************************************************)
\* the drops, as <<bucket, position>>, whose range holds byte p (0-based)
\* of file f
Owners(f, p) ==
    {o \in UNION {{<<b, k>> : k \in 1..Len(buckets[b].drops)} : b \in 1..Len(buckets)} :
        /\ buckets[o[1]].drops[o[2]].filename = f
        /\ p \in DropRange(buckets[o[1]].drops[o[2]])}

\* the byte the server delivered for position p (0-based) of file f
DeliveredByte(f, p) ==
    LET o == CHOOSE x \in Owners(f, p) : TRUE
    IN BodyRange(o[1], o[2])[p - buckets[o[1]].drops[o[2]].start + 1]

\* the size the manifest gives file f, and the size the run found it with
ManifestSize(f) == SumSeq(manifest[f].lengths)
FoundSize(f) == IF f \in DOMAIN fs0 THEN Len(fs0[f]) ELSE 0

\* file f when every range has been written over what the run found: a
\* function of the delivered bytes and of fs0 alone
ExpectedFile(f) ==
    [p \in 1..Max(ManifestSize(f), FoundSize(f)) |->
        IF p <= ManifestSize(f) THEN DeliveredByte(f, p - 1) ELSE fs0[f][p]]

\* C21: drops of one file in different buckets (and two drops of one file
\* in one bucket) have disjoint byte ranges;
\* every task's writers stay inside their drops' ranges, so that no byte
\* position of a file is written by two buckets; and when every bucket has
\* completed each file holds, whatever the interleaving and the order of
\* completion, the delivered bytes of its ranges at their offsets, followed
\* by what the run found beyond them.
C21_DisjointBucketsSameResult ==
    /\ \A b, c \in 1..Len(buckets) :
          \A i \in 1..Len(buckets[b].drops), j \in 1..Len(buckets[c].drops) :
              ((b # c \/ i # j)
                 /\ buckets[b].drops[i].filename = buckets[c].drops[j].filename) =>
                  DropRange(buckets[b].drops[i]) \cap DropRange(buckets[c].drops[j]) = {}
    /\ \A b \in DOMAIN workers :
          \A i \in 1..Len(workers[b].destination) :
              WrittenSpan(b, i) \subseteq DropRange(Drops(b)[i])
    /\ dpc = "finished" =>
          \A f \in DOMAIN manifest :
              manifest[f].lengths # <<>> => (f \in DOMAIN fs /\ fs[f] = ExpectedFile(f))

\* a finished run in which the two ranges of file a lay in two buckets that
\* ran on the pool's two threads, file b in a third, and file a was found
\* longer than the manifest makes it; both buckets passed their checksums
C21_Witness ==
    /\ dpc = "finished"
    /\ "a" \in DOMAIN manifest
    /\ FoundSize("a") > ManifestSize("a")
    /\ Len(buckets) = 3
    /\ \E b, c \in DOMAIN workers :
          /\ b # c
          /\ Drops(b)[1].filename = "a" /\ Drops(c)[1].filename = "a"
          /\ Drops(b)[1].start = 0 /\ Drops(c)[1].start > 0
          /\ Completed(b) /\ Completed(c)
          /\ ~workers[b].mismatch /\ ~workers[c].mismatch
          /\ fs["a"] = BodyRange(b, 1) \o BodyRange(c, 1) \o SubSeq(fs0["a"], 5, 6)
          /\ fs["a"] # fs0["a"]

====
